---- MODULE Spec2Model ----
(***************************************************************************)
(* gmail_attachment_downloader: the attachment extractor                   *)
(* (get_attachment_msgs), the filename sanitizer (sanitize_filename), the  *)
(* unused-name resolver (find_unused_filename) and the save loop of main.  *)
(*                                                                         *)
(* Strings are sequences of one-character strings, so that length,         *)
(* position and concatenation are what they are in the Python source.      *)
(* Python's None is the record None; a present optional value v is         *)
(* Some(v).                                                                *)
(***************************************************************************)
EXTENDS Integers, Sequences, FiniteSets, TLC

VARIABLES
    \* sanitize_filename and the traversal test
    filename,        \* the raw input string
    sanitized,       \* sanitize_filename(filename), once computed
    resolved_path,   \* (folder / sanitized).resolve(), as path components
    san_pc,
    \* get_attachment_msgs
    msg,             \* the message tree
    mime_type,       \* the MIME filter, None or Some(content type)
    walk_pos,        \* how many nodes of msg.walk() the generator consumed
    yielded,         \* the nodes the generator produced so far, in order
    \* find_unused_filename and main's save loop
    files,           \* the target directory: name -> content
    initial_files,   \* the directory as it was before the run
    file_ext,        \* --file-ext, None or Some(string)
    queue,           \* per writer: the candidates still to fetch
    current,         \* per writer: the candidate being saved
    pc,              \* per writer: position in the save loop
    base_name,       \* per writer: find_unused_filename's base_name
    ext,             \* per writer: find_unused_filename's ext
    counter,         \* per writer: find_unused_filename's counter
    fname,           \* per writer: find_unused_filename's fname, then what it returned
    log              \* the "Saved file" records, in order

sanVars == <<filename, sanitized, resolved_path, san_pc>>
extVars == <<msg, mime_type, walk_pos, yielded>>
saveVars == <<files, initial_files, file_ext, queue, current, pc, base_name, ext, counter, fname, log>>
vars == <<sanVars, extVars, saveVars>>

(***************************************************************************)
(* Bounds of the model.                                                    *)
(***************************************************************************)
MaxLen == 3          \* longest raw filename given to sanitize_filename alone
MaxNodes == 4        \* nodes of a message tree
MaxCandidates == 2   \* candidates of a single-writer run
MaxRace == 1         \* candidates each of two concurrent writers saves
MaxCounter == 3      \* the counter is tracked up to this value

(***************************************************************************)
(* Optional values.                                                        *)
(***************************************************************************)
None == [isNone |-> TRUE]
Some(v) == [isNone |-> FALSE, val |-> v]

(***************************************************************************)
(* Strings.                                                                *)
(***************************************************************************)
ascii_lowercase ==
    << "a", "b", "c", "d", "e", "f", "g", "h", "i", "j", "k", "l", "m",
       "n", "o", "p", "q", "r", "s", "t", "u", "v", "w", "x", "y", "z" >>

ascii_uppercase ==
    << "A", "B", "C", "D", "E", "F", "G", "H", "I", "J", "K", "L", "M",
       "N", "O", "P", "Q", "R", "S", "T", "U", "V", "W", "X", "Y", "Z" >>

ascii_letters == ascii_lowercase \o ascii_uppercase

digits == << "0", "1", "2", "3", "4", "5", "6", "7", "8", "9" >>

Range(s) == { s[i] : i \in DOMAIN s }

\* Python's  c in text  for a one-character c.
CharIn(c, text) == \E i \in DOMAIN text : text[i] = c

\* All strings over chars of length at most n.
StringsUpTo(chars, n) == UNION { [1..k -> chars] : k \in 0..n }

\* str.rfind(c): the last position of c (1-based), 0 when absent.
RFind(s, c) ==
    IF \E i \in DOMAIN s : s[i] = c
    THEN CHOOSE i \in DOMAIN s : s[i] = c /\ \A j \in DOMAIN s : s[j] = c => j <= i
    ELSE 0

(***************************************************************************)
(* sanitize_filename                                                       *)
(***************************************************************************)
allowed_chars == ascii_letters \o digits \o << "_", ".", "-" >>

sanitize_filename_dropping(name) ==
    SelectSeq(name, LAMBDA c : CharIn(c, allowed_chars))

sanitize_filename(name) ==
    [i \in 1..Len(name) |-> IF CharIn(name[i], allowed_chars) THEN name[i] ELSE "_"]

(***************************************************************************)
(* pathlib: joining a name to the target folder and resolving the result.  *)
(* A path is the sequence of its components below the root; no entry of    *)
(* the directories involved is a symbolic link.                            *)
(***************************************************************************)
\* The target folder, /srv/dl.
TargetFolder == << <<"s", "r", "v">>, <<"d", "l">> >>

FirstSlash(s) == CHOOSE i \in DOMAIN s : s[i] = "/" /\ \A j \in 1..(i - 1) : s[j] # "/"

\* The "/"-separated pieces of a path string.
RECURSIVE SplitPath(_)
SplitPath(s) ==
    IF ~CharIn("/", s)
    THEN << s >>
    ELSE << SubSeq(s, 1, FirstSlash(s) - 1) >>
             \o SplitPath(SubSeq(s, FirstSlash(s) + 1, Len(s)))

\* pathlib.Path(folder) / name: an absolute name replaces the folder.
JoinPath(folder, name) ==
    IF name # <<>> /\ name[1] = "/" THEN SplitPath(name) ELSE folder \o SplitPath(name)

\* Path.resolve(): empty and "." components vanish, ".." steps to the parent
\* (the root is its own parent).
RECURSIVE Normalize(_, _)
Normalize(acc, comps) ==
    IF comps = <<>>
    THEN acc
    ELSE LET c == Head(comps)
             next == IF c = <<>> \/ c = << "." >>
                     THEN acc
                     ELSE IF c = << ".", "." >>
                          THEN (IF acc = <<>> THEN acc ELSE SubSeq(acc, 1, Len(acc) - 1))
                          ELSE Append(acc, c)
         IN Normalize(next, Tail(comps))

ResolvePath(comps) == Normalize(<<>>, comps)

\* resolved.relative_to(folder) succeeds.
IsRelativeTo(path, folder) ==
    Len(path) >= Len(folder) /\ SubSeq(path, 1, Len(folder)) = folder

(***************************************************************************)
(* Idle values of the parts a specification does not exercise.             *)
(***************************************************************************)
NoFiles == [n \in {} |-> <<>>]

SanIdle ==
    /\ filename = <<>>
    /\ sanitized = None
    /\ resolved_path = None
    /\ san_pc = "idle"

ExtIdle ==
    /\ msg = None
    /\ mime_type = None
    /\ walk_pos = 0
    /\ yielded = <<>>

SaveIdle ==
    /\ files = NoFiles
    /\ initial_files = NoFiles
    /\ file_ext = None
    /\ queue = <<>>
    /\ current = <<>>
    /\ pc = <<>>
    /\ base_name = <<>>
    /\ ext = <<>>
    /\ counter = <<>>
    /\ fname = <<>>
    /\ log = <<>>

(***************************************************************************)
(* Specification SpecSanitize: sanitize_filename on every raw string of    *)
(* length at most MaxLen over SampleChars, then the join-and-resolve of    *)
(* test_directory_traversal.                                               *)
(***************************************************************************)
SampleChars == { "a", "Z", "7", "_", ".", "-", "/", "\\", " ", "*" }

InitSanitize ==
    /\ filename \in StringsUpTo(SampleChars, MaxLen)
    /\ sanitized = None
    /\ resolved_path = None
    /\ san_pc = "start"
    /\ ExtIdle
    /\ SaveIdle

Sanitize ==
    /\ san_pc = "start"
    /\ sanitized' = Some(sanitize_filename(filename))
    /\ san_pc' = "sanitized"
    /\ UNCHANGED <<filename, resolved_path, extVars, saveVars>>

ResolveSanitized ==
    /\ san_pc = "sanitized"
    /\ resolved_path' = Some(ResolvePath(JoinPath(TargetFolder, sanitized.val)))
    /\ san_pc' = "resolved"
    /\ UNCHANGED <<filename, sanitized, extVars, saveVars>>

NextSanitize == Sanitize \/ ResolveSanitized

SpecSanitize == InitSanitize /\ [][NextSanitize]_vars

\* The allow-list as the specification states it.
AllowList == Range(ascii_letters) \cup Range(digits) \cup { "_", ".", "-" }

\* C3: sanitize_filename(s) has the length of s, holds only allow-listed
\* characters, keeps each allowed character of s at its position and puts
\* exactly one underscore in the place of every other character.
C3_SanitizeOneForOne ==
    san_pc # "start" =>
        /\ Len(sanitized.val) = Len(filename)
        /\ \A i \in 1..Len(filename) :
              /\ sanitized.val[i] \in AllowList
              /\ filename[i] \in AllowList => sanitized.val[i] = filename[i]
              /\ filename[i] \notin AllowList => sanitized.val[i] = "_"

\* A string mixing allowed and other characters has been sanitized.
C3_Witness ==
    /\ san_pc = "sanitized"
    /\ Len(filename) = MaxLen
    /\ \E i, j \in 1..Len(filename) :
          /\ filename[i] \notin AllowList
          /\ filename[j] \in AllowList \ { "_" }
          /\ sanitized.val[i] = "_"
          /\ sanitized.val[j] = filename[j]

\* C4: the sanitized name, joined to the target folder and resolved, lies
\* inside the target folder, whatever the raw string was.
C4_SanitizedStaysInFolder ==
    san_pc = "resolved" => IsRelativeTo(resolved_path.val, TargetFolder)

(***************************************************************************)
(* The message tree (email.message.Message).  Nodes are 1..n, node 1 is    *)
(* the root, parent[c] < c, and the sub-parts of a node are its children   *)
(* in increasing order (the order of get_payload()).  A content type is    *)
(* the sequence of the "/"-separated pieces of the string                  *)
(* get_content_type() returns: "image/png" is <<"image", "png">> and the   *)
(* literal "multipart" is <<"multipart">>.                                 *)
(***************************************************************************)
Part(ct, disp, fn) == [content_type |-> ct, disposition |-> disp, filename |-> fn]

ImagePng == << "image", "png" >>
TextPlain == << "text", "plain" >>
MultipartMixed == << "multipart", "mixed" >>

Attachment == << "a", "t", "t", "a", "c", "h", "m", "e", "n", "t" >>
APng == << "a", ".", "p", "n", "g" >>
NTxt == << "n", ".", "t", "x", "t" >>
CBin == << "c", ".", "b", "i", "n" >>

LeafParts ==
    { Part(ImagePng, Some(Attachment), Some(APng)),
      Part(ImagePng, None, Some(APng)),
      Part(ImagePng, Some(Attachment), Some(<<>>)),
      Part(TextPlain, Some(Attachment), Some(NTxt)),
      Part(TextPlain, None, None) }

ContainerParts ==
    { Part(MultipartMixed, None, None),
      Part(MultipartMixed, Some(Attachment), Some(CBin)) }

SampleFilters == { None, Some(ImagePng), Some(<< "IMAGE", "PNG" >>), Some(MultipartMixed) }

ChildSet(m, n) == { c \in 2..m.n : m.parent[c] = n }

\* The elements of a set of numbers, in increasing order.
RECURSIVE Sorted(_)
Sorted(S) ==
    IF S = {}
    THEN <<>>
    ELSE LET lo == CHOOSE x \in S : \A y \in S : x <= y
         IN << lo >> \o Sorted(S \ { lo })

\* msg.get_payload() of a multipart node: its sub-parts, in order.
get_payload(m, n) == Sorted(ChildSet(m, n))

\* The shapes of a tree of k nodes.
Parents(k) == { p \in [2..k -> 1..k] : \A c \in 2..k : p[c] < c }

\* The parts of a tree of shape p: a node with sub-parts is a container.
PartsFor(k, p) ==
    { q \in [1..k -> LeafParts \cup ContainerParts] :
        \A x \in 1..k : (\E c \in 2..k : p[c] = x) => q[x] \in ContainerParts }

TreesOf(k) ==
    UNION { { [n |-> k, parent |-> p, part |-> q] : q \in PartsFor(k, p) } : p \in Parents(k) }

Reverse(s) == [i \in 1..Len(s) |-> s[Len(s) + 1 - i]]

\* Message.walk(): the node itself, then the walk of each sub-part in order.
RECURSIVE walk_from(_, _), walk_each(_, _)
walk_from(m, n) == << n >> \o walk_each(m, get_payload(m, n))

walk_each(m, parts) ==
    IF parts = <<>> THEN <<>> ELSE walk_from(m, Head(parts)) \o walk_each(m, Tail(parts))

walk_children_first(m) == Reverse(walk_from(m, 1))

walk(m) == walk_from(m, 1)

\* Python truthiness of an optional string.
Truthy(opt) == ~opt.isNone /\ opt.val # <<>>

get_content_type(m, n) == m.part[n].content_type

msg_has_attachment(m, n) ==
    /\ get_content_type(m, n) # << "multipart" >>
    /\ Truthy(m.part[n].disposition)
    /\ Truthy(m.part[n].filename)

\* The condition of the generator expression get_attachment_msgs returns.
generator_keeps(m, filter, n) ==
    IF filter = None
    THEN TRUE
    ELSE msg_has_attachment(m, n) /\ get_content_type(m, n) = filter.val

(***************************************************************************)
(* Specification SpecExtract: the generator get_attachment_msgs returns,   *)
(* advanced node by node over every tree of at most MaxNodes nodes.        *)
(***************************************************************************)
InitExtract ==
    /\ \E k \in 1..MaxNodes : msg \in TreesOf(k)
    /\ mime_type \in SampleFilters
    /\ walk_pos = 0
    /\ yielded = <<>>
    /\ SanIdle
    /\ SaveIdle

\* The generator reaches a node its condition keeps and yields it.
YieldNode ==
    /\ walk_pos < Len(walk(msg))
    /\ generator_keeps(msg, mime_type, walk(msg)[walk_pos + 1])
    /\ yielded' = Append(yielded, walk(msg)[walk_pos + 1])
    /\ walk_pos' = walk_pos + 1
    /\ UNCHANGED <<msg, mime_type, sanVars, saveVars>>

\* The generator passes over a node its condition rejects.
SkipNode ==
    /\ walk_pos < Len(walk(msg))
    /\ ~generator_keeps(msg, mime_type, walk(msg)[walk_pos + 1])
    /\ walk_pos' = walk_pos + 1
    /\ UNCHANGED <<msg, mime_type, yielded, sanVars, saveVars>>

NextExtract == YieldNode \/ SkipNode

SpecExtract == InitExtract /\ [][NextExtract]_vars

Exhausted == msg # None /\ walk_pos = msg.n

\* Position of node n in the sequence s (0 when absent).
PosIn(s, n) == IF \E i \in DOMAIN s : s[i] = n THEN CHOOSE i \in DOMAIN s : s[i] = n ELSE 0

RECURSIVE IsAncestor(_, _, _)
IsAncestor(m, a, c) ==
    c # 1 /\ (m.parent[c] = a \/ IsAncestor(m, a, m.parent[c]))

Subtree(m, a) == { a } \cup { c \in 1..m.n : IsAncestor(m, a, c) }

\* s lists every node of m exactly once in pre-order: the root first, every
\* subtree as one block that starts with its root, siblings in their order.
IsPreOrder(m, s) ==
    /\ Len(s) = m.n
    /\ \A n \in 1..m.n : Cardinality({ i \in DOMAIN s : s[i] = n }) = 1
    /\ s[1] = 1
    /\ \A a \in 1..m.n :
         { PosIn(s, c) : c \in Subtree(m, a) }
            = PosIn(s, a)..(PosIn(s, a) + Cardinality(Subtree(m, a)) - 1)
    /\ \A a, b \in 2..m.n :
         (m.parent[a] = m.parent[b] /\ a < b) => PosIn(s, a) < PosIn(s, b)

\* A node qualifies as an attachment, as the specification states it.
IsMultipartType(ct) == ct[1] = "multipart"

Qualifies(m, n) ==
    /\ ~IsMultipartType(m.part[n].content_type)
    /\ Truthy(m.part[n].disposition)
    /\ Truthy(m.part[n].filename)

\* C6: with a MIME filter, the generator yields exactly the qualifying nodes
\* (not of a multipart type, non-empty disposition, non-empty filename) whose
\* content type equals the filter, in pre-order, each at most once.
C6_FilterYieldsQualifying ==
    (Exhausted /\ mime_type # None) =>
        yielded = SelectSeq(walk(msg),
                            LAMBDA n : Qualifies(msg, n)
                                       /\ msg.part[n].content_type = mime_type.val)

\* C7: without a MIME filter the generator yields every node of the tree
\* exactly once, containers included, in pre-order.
C7_NoFilterYieldsAllPreOrder ==
    (Exhausted /\ mime_type = None) => IsPreOrder(msg, yielded)

\* A tree whose pre-order differs from the order of the node numbers, with a
\* container and a part without disposition or filename, has been walked.
C7_Witness ==
    /\ Exhausted
    /\ mime_type = None
    /\ msg.n = MaxNodes
    /\ \E c \in 2..(msg.n - 1) : msg.parent[c + 1] < c /\ ChildSet(msg, c) # {}
    /\ \E n \in 1..msg.n : msg.part[n] = Part(TextPlain, None, None)
    /\ Len(yielded) = msg.n

(***************************************************************************)
(* pathlib name, stem and suffix (Python 3.10 to 3.12).                    *)
(***************************************************************************)
Last(s) == s[Len(s)]

\* PurePath.name: the last component, "" and "." components dropped.
path_name(s) ==
    LET comps == SelectSeq(SplitPath(s), LAMBDA c : c # <<>> /\ c # << "." >>)
    IN IF comps = <<>> THEN <<>> ELSE Last(comps)

\* A suffix starts at the last period, which is neither the first nor the
\* last character of the name.
HasSuffix(name) == 1 < RFind(name, ".") /\ RFind(name, ".") < Len(name)

suffix(s) ==
    LET name == path_name(s)
    IN IF HasSuffix(name) THEN SubSeq(name, RFind(name, "."), Len(name)) ELSE <<>>

stem(s) ==
    LET name == path_name(s)
    IN IF HasSuffix(name) THEN SubSeq(name, 1, RFind(name, ".") - 1) ELSE name

(***************************************************************************)
(* find_unused_filename                                                    *)
(***************************************************************************)
RandLen == 6

\* The draws of random.choices the model follows: strings over
\* ascii_letters + digits.
RandomDraws ==
    { << "a", "B", "3", "d", "E", "6" >>,
      << "x", "Y", "0", "z", "Q", "9" >>,
      << "k", "k", "k", "k", "k", "k" >> }

generate_random_string(length) ==
    { r \in RandomDraws : Len(r) = length /\ \A i \in 1..length : CharIn(r[i], ascii_letters \o digits) }

\* ext = f".{ext}" if not file_ext else f".{file_ext}"
effective_ext(detected, declared) ==
    IF ~Truthy(declared) THEN << "." >> \o detected ELSE << "." >> \o declared.val

attempt_name_no_underscore(base, e, cnt, r) ==
    IF cnt > 1 THEN base \o r \o e ELSE base \o e

\* The name the loop tries on its cnt-th pass, r being that pass's draw.
attempt_name(base, e, cnt, r) ==
    IF cnt > 1 THEN base \o << "_" >> \o r \o e ELSE base \o e

\* The working directory, /tmp, which holds no entry.
WorkingDir == << <<"t", "m", "p">> >>

\* pathlib.Path(name).exists(): the name looked up in the working directory.
path_exists_in_cwd(fs, name) ==
    LET p == ResolvePath(JoinPath(WorkingDir, name))
    IN Len(p) <= Len(WorkingDir) /\ p = SubSeq(WorkingDir, 1, Len(p))

\* (pathlib.Path(folder) / name).exists(): the folder and its ancestors are
\* directories that exist; below the folder, the entries of fs exist.
path_exists(fs, name) ==
    IF ~CharIn("/", name)
    THEN \* one component: the folder itself, its parent, or an entry
         name \in { <<>>, << "." >>, << ".", "." >> } \/ name \in DOMAIN fs
    ELSE LET p == ResolvePath(JoinPath(TargetFolder, name))
         IN \/ Len(p) <= Len(TargetFolder) /\ p = SubSeq(TargetFolder, 1, Len(p))
            \/ /\ Len(p) = Len(TargetFolder) + 1
               /\ IsRelativeTo(p, TargetFolder)
               /\ Last(p) \in DOMAIN fs

NextCounter(cnt) == IF cnt < MaxCounter THEN cnt + 1 ELSE cnt

find_unused_step_first_only(fs, base, e, cnt, r) ==
    LET name == attempt_name(base, e, cnt, r)
    IN IF cnt > 1 \/ ~path_exists(fs, name)
       THEN [status |-> "return", fname |-> name, counter |-> cnt]
       ELSE [status |-> "retry", fname |-> name, counter |-> NextCounter(cnt)]

find_unused_step_capped(fs, base, e, cnt, r) ==
    LET name == attempt_name(base, e, cnt, r)
    IN IF ~path_exists(fs, name)
       THEN [status |-> "return", fname |-> name, counter |-> cnt]
       ELSE IF cnt > 1
            THEN [status |-> "raise", fname |-> name, counter |-> cnt]
            ELSE [status |-> "retry", fname |-> name, counter |-> NextCounter(cnt)]

\* One pass of the while True loop: fname is set, then returned when it is
\* unused; when it exists the pass counts and the loop goes round again.
find_unused_step(fs, base, e, cnt, r) ==
    LET name == attempt_name(base, e, cnt, r)
    IN IF ~path_exists(fs, name)
       THEN [status |-> "return", fname |-> name, counter |-> cnt]
       ELSE [status |-> "retry", fname |-> name, counter |-> NextCounter(cnt)]

\* open(filepath, "xb"): the file is created only when it does not exist.
open_xb(fs, name, data) ==
    IF name \in DOMAIN fs
    THEN fs
    ELSE [n \in DOMAIN fs \cup { name } |-> IF n = name THEN data ELSE fs[n]]

\* open(filepath, "wb") and file.write(data): the file is created or
\* truncated, then holds data.
open_wb(fs, name, data) ==
    [n \in DOMAIN fs \cup { name } |-> IF n = name THEN data ELSE fs[n]]

(***************************************************************************)
(* main's save loop.  A candidate is what fetch_attachments yields:        *)
(* (msg.get_filename(), msg.get_payload(decode=True)), either of which may *)
(* be None.  The payload of the i-th candidate of writer w is the          *)
(* pair <<w, i>>; a file of the initial directory holds OldContent and a   *)
(* file opened but never written holds EmptyContent.                       *)
(***************************************************************************)
Writers == { 1, 2 }

OldContent == << 0, 0 >>
EmptyContent == <<>>

ReportPdf == << "r", "e", "p", "o", "r", "t", ".", "p", "d", "f" >>
Notes == << "n", "o", "t", "e", "s" >>
DotDot == << ".", "." >>
UpXPdf == << ".", ".", "/", "x", ".", "p", "d", "f" >>
Txt == << "t", "x", "t" >>

SampleNames == { <<>>, ReportPdf, Notes, DotDot, UpXPdf }

SampleExts == { None, Some(<<>>), Some(Txt) }

\* What a candidate looks like: its filename and whether it has a payload.
CandidateShapes ==
    { << Some(n), TRUE >> : n \in SampleNames }
        \cup { << None, TRUE >>, << Some(ReportPdf), FALSE >> }

Candidate(shape, w, i) ==
    [filename |-> shape[1], payload |-> IF shape[2] THEN Some(<< w, i >>) ELSE None]

QueueOf(shapes, w) == [i \in 1..Len(shapes) |-> Candidate(shapes[i], w, i)]

ShapeLists(n) == UNION { [1..k -> CandidateShapes] : k \in 1..n }

\* Every name find_unused_filename can try for name n under extension e.
FirstName(n, e) == attempt_name(stem(sanitize_filename(n)), effective_ext(suffix(sanitize_filename(n)), e), 1, <<>>)

DrawnName(n, e, r) == attempt_name(stem(sanitize_filename(n)), effective_ext(suffix(sanitize_filename(n)), e), 2, r)

FilesNamed(names) == [n \in names |-> OldContent]

\* The directories a run starts from: empty, holding every first-attempt name,
\* holding also every name of one draw, holding every name that can be tried.
InitialDirs(e) ==
    LET first == { FirstName(n, e) : n \in SampleNames }
        one == { DrawnName(n, e, << "a", "B", "3", "d", "E", "6" >>) : n \in SampleNames }
        all == { DrawnName(n, e, r) : n \in SampleNames, r \in RandomDraws }
    IN { NoFiles, FilesNamed(first), FilesNamed(first \cup one), FilesNamed(first \cup all) }

\* The loop takes the next candidate and calls find_unused_filename, which
\* sanitizes the name (a TypeError for None), splits it into base_name and
\* ext, settles ext and sets counter = 1.
Fetch(w) ==
    /\ pc[w] = "fetch"
    /\ queue[w] # <<>>
    /\ current' = [current EXCEPT ![w] = Head(queue[w])]
    /\ queue' = [queue EXCEPT ![w] = Tail(queue[w])]
    /\ IF Head(queue[w]).filename = None
       THEN /\ pc' = [pc EXCEPT ![w] = "crashed"]
            /\ UNCHANGED <<base_name, ext, counter>>
       ELSE /\ pc' = [pc EXCEPT ![w] = "resolve"]
            /\ base_name' = [base_name EXCEPT
                                ![w] = stem(sanitize_filename(Head(queue[w]).filename.val))]
            /\ ext' = [ext EXCEPT
                          ![w] = effective_ext(suffix(sanitize_filename(Head(queue[w]).filename.val)),
                                               file_ext)]
            /\ counter' = [counter EXCEPT ![w] = 1]
    /\ UNCHANGED <<files, initial_files, file_ext, fname, log, sanVars, extVars>>

\* One pass of find_unused_filename's loop with the draw r.
AttemptWith(w, r) ==
    /\ pc[w] = "resolve"
    /\ LET step == find_unused_step(files, base_name[w], ext[w], counter[w], r)
       IN /\ counter' = [counter EXCEPT ![w] = step.counter]
          /\ fname' = [fname EXCEPT ![w] = step.fname]
          /\ pc' = [pc EXCEPT ![w] = CASE step.status = "return" -> "write"
                                       [] step.status = "retry" -> "resolve"
                                       [] OTHER -> "crashed"]
    /\ UNCHANGED <<files, initial_files, file_ext, queue, current, base_name, ext, log,
                   sanVars, extVars>>

Attempt(w) == \E r \in generate_random_string(RandLen) : AttemptWith(w, r)

\* with open(filepath, "wb") as file: file.write(attachment), then the
\* "Saved file" record.  write(None) raises TypeError after the open.
Write(w) ==
    /\ pc[w] = "write"
    /\ IF current[w].payload = None
       THEN /\ files' = open_wb(files, fname[w], EmptyContent)
            /\ pc' = [pc EXCEPT ![w] = "crashed"]
            /\ UNCHANGED log
       ELSE /\ files' = open_wb(files, fname[w], current[w].payload.val)
            /\ pc' = [pc EXCEPT ![w] = "fetch"]
            /\ log' = Append(log, [writer |-> w, filename |-> current[w].filename.val,
                                   filepath |-> fname[w], payload |-> current[w].payload.val])
    /\ UNCHANGED <<initial_files, file_ext, queue, current, base_name, ext, counter, fname,
                   sanVars, extVars>>

\* fetch_attachments is exhausted: the loop ends.
Finish(w) ==
    /\ pc[w] = "fetch"
    /\ queue[w] = <<>>
    /\ pc' = [pc EXCEPT ![w] = "done"]
    /\ UNCHANGED <<files, initial_files, file_ext, queue, current, base_name, ext, counter,
                   fname, log, sanVars, extVars>>

NextSave == \E w \in Writers : Fetch(w) \/ Attempt(w) \/ Write(w) \/ Finish(w)

NoCandidate == [filename |-> None, payload |-> None]

InitSave(queues) ==
    /\ file_ext \in SampleExts
    /\ initial_files \in InitialDirs(file_ext)
    /\ files = initial_files
    /\ queue = queues
    /\ current = [w \in Writers |-> NoCandidate]
    /\ pc = [w \in Writers |-> IF queues[w] = <<>> THEN "done" ELSE "fetch"]
    /\ base_name = [w \in Writers |-> <<>>]
    /\ ext = [w \in Writers |-> <<>>]
    /\ counter = [w \in Writers |-> 1]
    /\ fname = [w \in Writers |-> <<>>]
    /\ log = <<>>
    /\ SanIdle
    /\ ExtIdle

(***************************************************************************)
(* Specification SpecSingle: one run of the save loop over at most         *)
(* MaxCandidates candidates.  FairSingle adds what a running call of      *)
(* find_unused_filename gives: its loop keeps going round, and a loop that *)
(* runs forever sees every draw again and again.                           *)
(***************************************************************************)
InitSingle ==
    \E shapes \in ShapeLists(MaxCandidates) :
        InitSave([w \in Writers |-> IF w = 1 THEN QueueOf(shapes, 1) ELSE <<>>])

SpecSingle == InitSingle /\ [][NextSave]_vars

FairSingle ==
    /\ InitSingle
    /\ [][NextSave]_vars
    /\ \A r \in RandomDraws : WF_vars(AttemptWith(1, r))

(***************************************************************************)
(* Specification SpecRace: two runs of the save loop on the same mailbox   *)
(* and folder, each over the same candidates, interleaved at the file      *)
(* system operations.                                                      *)
(***************************************************************************)
InitRace ==
    \E shapes \in ShapeLists(MaxRace) :
        InitSave([w \in Writers |-> QueueOf(shapes, w)])

SpecRace == InitRace /\ [][NextSave]_vars

(***************************************************************************)
(* Claims about find_unused_filename and the save loop.                    *)
(***************************************************************************)
\* The six-character strings over letters and digits.
IsRandomSuffix(s) == Len(s) = 6 /\ \A i \in 1..6 : s[i] \in Range(ascii_letters) \cup Range(digits)

\* name, joined to the folder, is a path that exists: an entry of the
\* directory, or the folder itself or its parent.
NamesExistingPath(fs, name) ==
    name \in DOMAIN fs \/ name \in { <<>>, << "." >>, << ".", "." >> }

SanitizedOf(w) == sanitize_filename(current[w].filename.val)

\* C1: the name find_unused_filename returns, joined to the folder, is a path
\* that does not exist at that moment.
C1_ReturnedNameUnused ==
    \A w \in Writers : pc[w] = "write" => ~NamesExistingPath(files, fname[w])

\* A name was returned after the first attempt collided with an entry.
C1_Witness ==
    /\ pc[1] = "write"
    /\ counter[1] > 1
    /\ FirstName(current[1].filename.val, file_ext) \in DOMAIN files
    /\ fname[1] # FirstName(current[1].filename.val, file_ext)

NewNames == DOMAIN files \ DOMAIN initial_files

C5_ReturnsCandidateItself ==
    \A w \in Writers :
        ( /\ pc[w] = "write"
          /\ file_ext = None
          /\ suffix(SanitizedOf(w)) # <<>>
          /\ SanitizedOf(w) \notin DOMAIN files )
        => fname[w] = SanitizedOf(w)

\* "attachment" + counter + "." + ext, for a counter of one digit.
SyntheticName(k, e) == Attachment \o << digits[k + 1] >> \o << "." >> \o e

\* C8 as stated: for an empty sanitized candidate the result is
\* attachment<counter>.<declaredExt> for the smallest counter, from 1, whose
\* name is not in the directory.
C8_SyntheticAttachmentName ==
    \A w \in Writers :
        (pc[w] = "write" /\ SanitizedOf(w) = <<>> /\ Truthy(file_ext))
        => \E k \in 1..9 :
              /\ fname[w] = SyntheticName(k, file_ext.val)
              /\ SyntheticName(k, file_ext.val) \notin DOMAIN files
              /\ \A j \in 1..(k - 1) : SyntheticName(j, file_ext.val) \in DOMAIN files

DeclaredOrEmpty == IF Truthy(file_ext) THEN file_ext.val ELSE <<>>

\* C8 amended: for an empty sanitized candidate the result is "." + ext when
\* that path does not exist, and otherwise "_" + six letters or digits + "."
\* + ext (ext the declared extension, empty when none is declared).
C8_EmptyCandidateName ==
    \A w \in Writers :
        (pc[w] = "write" /\ SanitizedOf(w) = <<>>)
        => IF ~NamesExistingPath(files, << "." >> \o DeclaredOrEmpty)
           THEN fname[w] = << "." >> \o DeclaredOrEmpty
           ELSE /\ Len(fname[w]) = 8 + Len(DeclaredOrEmpty)
                /\ fname[w][1] = "_"
                /\ IsRandomSuffix(SubSeq(fname[w], 2, 7))
                /\ SubSeq(fname[w], 8, Len(fname[w])) = << "." >> \o DeclaredOrEmpty

\* An empty candidate got its name after "." + ext turned out to exist.
C8_Witness ==
    /\ pc[1] = "write"
    /\ current[1].filename = Some(<<>>)
    /\ file_ext = Some(Txt)
    /\ << "." >> \o Txt \in DOMAIN files
    /\ fname[1][1] = "_"

\* Every name the loop of writer w can try exists.
AllTriedNamesExist(w) ==
    /\ NamesExistingPath(files, FirstName(current[w].filename.val, file_ext))
    /\ \A r \in RandomDraws : DrawnName(current[w].filename.val, file_ext, r) \in DOMAIN files

\* C9 as stated: every call of find_unused_filename ends, by a return or by
\* a failure.
C9_AlwaysTerminates ==
    \A w \in Writers : (pc[w] = "resolve") ~> (pc[w] # "resolve")

\* C9 amended: the loop has no retry cap and no failure: a pass either
\* returns or goes round again; while every name it can try exists it never
\* returns; and a call ends when one of those names is unused.
C9_ReturnsOnlyOnUnusedName ==
    /\ [][\A w \in Writers :
            pc[w] = "resolve" =>
                /\ pc'[w] \in { "resolve", "write" }
                /\ AllTriedNamesExist(w) => pc'[w] = "resolve"]_vars
    /\ \A w \in Writers :
         (pc[w] = "resolve" /\ ~AllTriedNamesExist(w)) ~> (pc[w] = "write")

\* The loop is on a pass beyond the tracked count with every name taken.
C9_Witness ==
    /\ pc[1] = "resolve"
    /\ counter[1] = MaxCounter
    /\ AllTriedNamesExist(1)

\* What the write of writer w stores.
WrittenContent(w) ==
    IF current[w].payload = None THEN EmptyContent ELSE current[w].payload.val

\* C10: the check and the write are separate steps and nothing holds the name
\* between them: the write stores the payload under the resolved name whether
\* or not that name has come to exist since the check, and a saved payload is
\* lost only to a later write of the other writer under the same name (a
\* saved one, or the open of a write that then failed).
C10_WriteIgnoresLaterCreation ==
    /\ [][\A w \in Writers :
            (pc[w] = "write" /\ pc'[w] # "write") => files'[fname[w]] = WrittenContent(w)]_vars
    /\ [](\A i \in DOMAIN log :
            files[log[i].filepath] # log[i].payload =>
                \/ \E j \in DOMAIN log :
                      /\ j > i
                      /\ log[j].filepath = log[i].filepath
                      /\ log[j].writer # log[i].writer
                \/ \E w \in Writers \ { log[i].writer } :
                      /\ pc[w] = "crashed"
                      /\ fname[w] = log[i].filepath
                      /\ files[log[i].filepath] = EmptyContent)

\* Both writers resolved the same name before either wrote, and the second
\* write replaced the first writer's payload.
C10_Witness ==
    /\ Len(log) = 2
    /\ log[1].writer # log[2].writer
    /\ log[1].filepath = log[2].filepath
    /\ files[log[2].filepath] = log[2].payload
    /\ \A n \in DOMAIN files : files[n] # log[1].payload

====
